---- MODULE Spec2Model ----
(***************************************************************************)
(* A model of genedescriptions/data_fetcher.py: the DataFetcher and        *)
(* WBDataFetcher classes.  The fetcher's fields are the variables; every   *)
(* method is one action; the pure parts of the methods are operators.      *)
(***************************************************************************)
EXTENDS Integers, Sequences, FiniteSets, TLC

(***************************************************************************)
(* Bounds of the model.                                                    *)
(***************************************************************************)
\* the longest annotation file (in records) an association set is built from
MaxAnnots == 3
\* the longest priority_list passed to get_annotations_for_gene
MaxPriority == 3
\* the longest cache path, in pieces
MaxPathLen == 5
\* the number of times the remote file changes
MaxVersion == 2

(***************************************************************************)
(* The values the inputs are drawn from.                                   *)
(***************************************************************************)
Genes == {"G1", "G2"}
Terms == {"T1", "T2"}
EvidenceCodes == {"IEA", "EXP"}
DataTypes == {"GO", "DO"}

VARIABLES
    go_associations,  \* self.go_associations
    do_associations,  \* self.do_associations
    go_ontology,      \* self.go_ontology
    do_ontology,      \* self.do_ontology
    gene_data,        \* self.gene_data
    use_cache,        \* self.use_cache
    fs,               \* the local files: a function from paths to contents
    remote,           \* what the remote source serves
    call              \* the last method call: its name, arguments and outcome

vars == <<go_associations, do_associations, go_ontology, do_ontology, gene_data,
          use_cache, fs, remote, call>>

\* the fields that hold loaded data
dataVars == <<go_associations, do_associations, go_ontology, do_ontology, gene_data>>

(***************************************************************************)
(* Helpers on sequences.                                                   *)
(***************************************************************************)
Range(s) == {s[i] : i \in 1..Len(s)}

SeqsUpTo(S, n) == UNION {[1..k -> S] : k \in 0..n}

Max(S) == CHOOSE x \in S : \A y \in S : y <= x

(***************************************************************************)
(* Annotations and association sets.                                       *)
(*                                                                         *)
(* An annotation is the dictionary the parser yields for one line of an    *)
(* annotation file; the file's format ("gaf" or "daf") and source_line     *)
(* tell two annotations of equal content apart.  An association set is    *)
(* its associations_by_subj: the annotations                               *)
(* grouped by subject, the subjects in the order they first appear, the    *)
(* annotations of one subject in their original order.  It is kept as the  *)
(* sequence obtained by walking that dictionary.                           *)
(***************************************************************************)
Annotation(subj, term, ev, quals, file, line) ==
    [subject |-> subj, object |-> term, evidence |-> ev, qualifiers |-> quals,
     file |-> file, source_line |-> line]

\* the subjects of a sequence of annotations, in the order they first appear
RECURSIVE SubjectsInOrder(_, _)
SubjectsInOrder(assocs, seen) ==
    IF assocs = <<>> THEN <<>>
    ELSE IF Head(assocs).subject \in seen THEN SubjectsInOrder(Tail(assocs), seen)
         ELSE <<Head(assocs).subject>>
                  \o SubjectsInOrder(Tail(assocs), seen \cup {Head(assocs).subject})

RECURSIVE GroupBySubject(_, _)
GroupBySubject(assocs, subjects) ==
    IF subjects = <<>> THEN <<>>
    ELSE SelectSeq(assocs, LAMBDA a : a.subject = Head(subjects))
             \o GroupBySubject(assocs, Tail(subjects))

\* AssociationSetFactory().create_from_assocs(assocs=..., ontology=...)
create_from_assocs(assocs) ==
    [loaded |-> TRUE, assocs |-> GroupBySubject(assocs, SubjectsInOrder(assocs, {}))]

\* GafParser().parse(file, skipheader=True): one annotation per line
parse_gaf(rows) ==
    [i \in 1..Len(rows) |->
        Annotation(rows[i].subject, rows[i].object, rows[i].evidence,
                   rows[i].qualifiers, "gaf", i)]

\* a field that still holds None
None == [loaded |-> FALSE]

\* dataset.associations(gene_id)
dataset_associations(dataset, gene_id) ==
    SelectSeq(dataset.assocs, LAMBDA a : a.subject = gene_id)

\* ontology.is_obsolete(term_id)
is_obsolete(ontology, term_id) == term_id \in ontology.obsolete

(***************************************************************************)
(* DataFetcher.get_annotations_for_gene                                    *)
(***************************************************************************)
\* the mutation of priority_map that ranks the codes in list order
priority_map_not_reversed(priority_list) ==
    [c \in Range(priority_list) |->
        Max({i \in 1..Len(priority_list) : priority_list[i] = c}) - 1]

\* dict(zip(priority_list, reversed(range(len(list(priority_list)))))): the
\* code at (0-based) index i gets len - 1 - i, and a code that occurs more
\* than once keeps the value of its last occurrence
priority_map(priority_list) ==
    [c \in Range(priority_list) |->
        Len(priority_list) - Max({i \in 1..Len(priority_list) : priority_list[i] = c})]

\* the mutation of filter_annotations that forgets the negation filter
filter_annotations_keep_negated(annots, ontology, include_obsolete, include_negative_results) ==
    SelectSeq(annots, LAMBDA a :
        include_obsolete \/ ~is_obsolete(ontology, a.object))

\* the mutation of filter_annotations that keeps the obsolete terms
filter_annotations_keep_obsolete(annots, ontology, include_obsolete, include_negative_results) ==
    SelectSeq(annots, LAMBDA a : include_negative_results \/ "NOT" \notin a.qualifiers)

\* the list comprehension that drops obsolete terms and negated annotations
filter_annotations(annots, ontology, include_obsolete, include_negative_results) ==
    SelectSeq(annots, LAMBDA a :
        /\ include_obsolete \/ ~is_obsolete(ontology, a.object)
        /\ include_negative_results \/ "NOT" \notin a.qualifiers)

\* the position of term_id among the keys of id_selected_annotation, 0 if absent
KeyIndex(selected, term_id) ==
    IF \E i \in 1..Len(selected) : selected[i].object = term_id
    THEN CHOOSE i \in 1..Len(selected) : selected[i].object = term_id
    ELSE 0

\* the mutation of select_annotation that replaces on an equal rank too
select_annotation_replace_on_tie(selected, annotation, pmap) ==
    IF annotation.evidence \in DOMAIN pmap
    THEN IF KeyIndex(selected, annotation.object) # 0
         THEN IF pmap[annotation.evidence] >=
                     pmap[selected[KeyIndex(selected, annotation.object)].evidence]
              THEN [selected EXCEPT ![KeyIndex(selected, annotation.object)] = annotation]
              ELSE selected
         ELSE Append(selected, annotation)
    ELSE selected

\* the mutation of select_annotation that never looks for the term
select_annotation_no_dedup(selected, annotation, pmap) ==
    IF annotation.evidence \in DOMAIN pmap
    THEN Append(selected, annotation)
    ELSE selected

\* the mutation of select_annotation that moves a replaced term to the end
select_annotation_moves_to_end(selected, annotation, pmap) ==
    IF annotation.evidence \in DOMAIN pmap
    THEN IF KeyIndex(selected, annotation.object) # 0
         THEN IF pmap[annotation.evidence] >
                     pmap[selected[KeyIndex(selected, annotation.object)].evidence]
              THEN Append(SelectSeq(selected, LAMBDA a : a.object # annotation.object),
                          annotation)
              ELSE selected
         ELSE Append(selected, annotation)
    ELSE selected

\* one iteration of the loop over annotations; id_selected_annotation is a
\* dictionary, kept as the sequence of its values in insertion order (the
\* keys are the values' term ids)
select_annotation(selected, annotation, pmap) ==
    IF annotation.evidence \in DOMAIN pmap
    THEN IF KeyIndex(selected, annotation.object) # 0
         THEN IF pmap[annotation.evidence] >
                     pmap[selected[KeyIndex(selected, annotation.object)].evidence]
              THEN [selected EXCEPT ![KeyIndex(selected, annotation.object)] = annotation]
              ELSE selected
         ELSE Append(selected, annotation)
    ELSE selected

RECURSIVE id_selected_annotation(_, _, _)
id_selected_annotation(annotations, pmap, selected) ==
    IF annotations = <<>> THEN selected
    ELSE id_selected_annotation(Tail(annotations), pmap,
                                select_annotation(selected, Head(annotations), pmap))

\* the dataset and the ontology the annot_type argument selects
dataset_of(annot_type, go_a, do_a) == IF annot_type = "GO" THEN go_a ELSE do_a
ontology_of(annot_type, go_o, do_o) == IF annot_type = "GO" THEN go_o ELSE do_o

\* a call with a desc_stats object, whose two counts are kept with the result
get_annotations_for_gene(gene_id, annot_type, include_obsolete, include_negative_results, priority_list) ==
    /\ dataset_of(annot_type, go_associations, do_associations).loaded
    /\ LET dataset == dataset_of(annot_type, go_associations, do_associations)
           ontology == ontology_of(annot_type, go_ontology, do_ontology)
           annotations == filter_annotations(dataset_associations(dataset, gene_id), ontology,
                                             include_obsolete, include_negative_results)
           selected == id_selected_annotation(annotations, priority_map(priority_list), <<>>)
       IN  call' = [op |-> "get_annotations_for_gene",
                    gene_id |-> gene_id,
                    annot_type |-> annot_type,
                    include_obsolete |-> include_obsolete,
                    include_negative_results |-> include_negative_results,
                    priority_list |-> priority_list,
                    total_num_go_annotations |-> Len(annotations),
                    num_prioritized_go_annotations |-> Len(selected),
                    ret |-> selected]
    /\ UNCHANGED <<dataVars, use_cache, fs, remote>>

(***************************************************************************)
(* The specification of the annotation selector: the fetcher holds loaded  *)
(* ontologies and association sets, and get_annotations_for_gene is called *)
(* once for gene G1, with any other arguments.  The GO association set is  *)
(* any set built from a file with lines of G1 and one line of G2; the DO   *)
(* association set is a fixed one.                                         *)
(***************************************************************************)
\* the lines of gene G1 in a GO annotation file
GafRows ==
    [subject : {"G1"}, object : Terms, evidence : EvidenceCodes,
     qualifiers : {{}, {"NOT"}}]

\* the gene whose annotations are asked for
QueriedGenes == {"G1"}

\* the line of another gene in the file
OtherGeneRow == [subject |-> "G2", object |-> "T1", evidence |-> "EXP", qualifiers |-> {}]

\* the annotation files: lines of G1, with the line of G2 after the first
SelFiles ==
    {IF rows = <<>> THEN <<OtherGeneRow>>
     ELSE <<Head(rows), OtherGeneRow>> \o Tail(rows) :
        rows \in SeqsUpTo(GafRows, MaxAnnots)}

SelGoOntology == [loaded |-> TRUE, terms |-> Terms, obsolete |-> {"T2"}, renamed |-> {}]
SelDoOntology == [loaded |-> TRUE, terms |-> Terms, obsolete |-> {}, renamed |-> {}]
SelDoAssociations ==
    create_from_assocs(<<Annotation("G1", "T1", "EXP", {}, "gaf", 1),
                         Annotation("G1", "T2", "IEA", {"NOT"}, "gaf", 2),
                         Annotation("G1", "T1", "IEA", {}, "gaf", 3)>>)

InitSel ==
    /\ go_ontology = SelGoOntology
    /\ do_ontology = SelDoOntology
    /\ go_associations \in {create_from_assocs(parse_gaf(rows)) : rows \in SelFiles}
    /\ do_associations = SelDoAssociations
    /\ gene_data = None
    /\ use_cache = FALSE
    /\ fs = <<>>
    /\ remote = 0
    /\ call = [op |-> "init"]

NextSel ==
    /\ call.op = "init"
    /\ \E gene_id \in QueriedGenes, annot_type \in DataTypes,
          include_obsolete \in BOOLEAN, include_negative_results \in BOOLEAN,
          priority_list \in SeqsUpTo(EvidenceCodes, MaxPriority) :
        get_annotations_for_gene(gene_id, annot_type, include_obsolete,
                                 include_negative_results, priority_list)

SpecSel == InitSel /\ [][NextSel]_vars

(***************************************************************************)
(* DataFetcher._get_cached_file                                            *)
(*                                                                         *)
(* A path is a sequence of pieces: names, the separator "/" and the string *)
(* ".gz".  A file's content is the data the remote source served when it   *)
(* was fetched, and whether it is compressed.                              *)
(***************************************************************************)
GZ == ".gz"

\* cache_path.endswith(".gz")
endswith_gz(path) == path # <<>> /\ path[Len(path)] = GZ

\* cache_path.replace(".gz", ""): every occurrence of ".gz" is removed
replace_gz(path) == SelectSeq(path, LAMBDA piece : piece # GZ)

\* os.path.dirname(path)
dirname(path) ==
    IF \E i \in 1..Len(path) : path[i] = "/"
    THEN SubSeq(path, 1, Max({i \in 1..Len(path) : path[i] = "/"}) - 1)
    ELSE <<>>

\* os.path.isfile(path)
isfile(files, path) == path \in DOMAIN files

\* the file system with one file written
write_file(files, path, content) ==
    [q \in DOMAIN files \cup {path} |-> IF q = path THEN content ELSE files[q]]

\* the mutation of fetch_needed that re-fetches when use_cache is set
fetch_needed_inverted(files, cache, cache_path) ==
    ~isfile(files, cache_path) \/ cache

\* lines 49-53: urlretrieve is called when there is no file at cache_path, or
\* when there is one and use_cache is false
fetch_needed(files, cache, cache_path) ==
    IF ~isfile(files, cache_path) THEN TRUE
    ELSE IF ~cache THEN TRUE
    ELSE FALSE

\* The outcome of _get_cached_file(cache_path, url).  fetch_ok tells whether
\* urlretrieve succeeds, url_data is the content it delivers, out_dir_ok
\* whether the directory of the decompressed file exists when it is not the
\* directory of cache_path (the only one the method creates).
get_cached_file_result(files, cache, cache_path, fetch_ok, url_data, out_dir_ok) ==
    LET fetch == fetch_needed(files, cache, cache_path)
        fetched == IF fetch /\ fetch_ok
                   THEN write_file(files, cache_path,
                                   [data |-> url_data, gzip |-> endswith_gz(cache_path)])
                   ELSE files
        out == replace_gz(cache_path)
    IN  IF fetch /\ ~fetch_ok
        THEN [fs |-> files, fetch |-> TRUE, raised |-> "FetchError", file_path |-> <<>>]
        ELSE IF ~endswith_gz(cache_path)
        THEN [fs |-> fetched, fetch |-> fetch, raised |-> "", file_path |-> cache_path]
        ELSE IF dirname(out) # dirname(cache_path) /\ ~out_dir_ok
        THEN [fs |-> fetched, fetch |-> fetch, raised |-> "IOError", file_path |-> <<>>]
        ELSE [fs |-> write_file(fetched, out,
                                [data |-> fetched[cache_path].data, gzip |-> FALSE]),
              fetch |-> fetch, raised |-> "", file_path |-> out]

\* a call of _get_cached_file on the path of the pending call
get_cached_file(fetch_ok, out_dir_ok) ==
    /\ call.op = "_get_cached_file"
    /\ LET r == get_cached_file_result(fs, use_cache, call.cache_path, fetch_ok,
                                       remote, out_dir_ok)
       IN  /\ fs' = r.fs
           /\ call' = [call EXCEPT !.returned = TRUE,
                                   !.existed = isfile(fs, call.cache_path),
                                   !.fetch = r.fetch,
                                   !.raised = r.raised,
                                   !.file_path = r.file_path]
    /\ UNCHANGED <<dataVars, use_cache, remote>>

\* the remote file changes
publish ==
    /\ call.op = "_get_cached_file"
    /\ remote < MaxVersion
    /\ remote' = remote + 1
    /\ UNCHANGED <<dataVars, use_cache, fs, call>>

(***************************************************************************)
(* The specification of the cache: a fetcher whose cache file is present   *)
(* (fetched when the remote file was at version 0) or not, and             *)
(* _get_cached_file called on one cache path again and again while the     *)
(* remote file changes.                                                    *)
(***************************************************************************)
PathPieces == {"a", "/", GZ}

\* the paths the fetcher builds with os.path.join(cache_location, ...): a
\* directory part and a file name; every name starts with a letter
CachePaths ==
    {path \in SeqsUpTo(PathPieces, MaxPathLen) :
        /\ \E i \in 1..Len(path) : path[i] = "/"
        /\ path[Len(path)] # "/"
        /\ \A i \in 1..Len(path) :
            /\ path[i] = GZ => i > 1 /\ path[i - 1] # "/"
            /\ path[i] = "/" /\ i > 1 => path[i - 1] # "/"}

InitCache ==
    /\ go_associations = None
    /\ do_associations = None
    /\ go_ontology = None
    /\ do_ontology = None
    /\ gene_data = None
    /\ use_cache \in BOOLEAN
    /\ remote = 1
    /\ \E path \in CachePaths :
        /\ fs \in {<<>>, write_file(<<>>, path, [data |-> 0, gzip |-> endswith_gz(path)])}
        /\ call = [op |-> "_get_cached_file", cache_path |-> path, returned |-> FALSE,
                   existed |-> FALSE, fetch |-> FALSE, raised |-> "", file_path |-> <<>>]

NextCache ==
    \/ \E fetch_ok \in BOOLEAN, out_dir_ok \in BOOLEAN : get_cached_file(fetch_ok, out_dir_ok)
    \/ publish

SpecCache == InitCache /\ [][NextCache]_vars

(***************************************************************************)
(* The loaders.  A loader reads and writes the fields of the fetcher and   *)
(* the local files; these are gathered in a record, so that a loader is an *)
(* operator from the record before the call to the record after it and the *)
(* exception raised ("" when the call returns).                            *)
(***************************************************************************)
Self ==
    [gene_data |-> gene_data, go_ontology |-> go_ontology, do_ontology |-> do_ontology,
     go_associations |-> go_associations, do_associations |-> do_associations,
     fs |-> fs]

Becomes(self) ==
    /\ gene_data' = self.gene_data
    /\ go_ontology' = self.go_ontology
    /\ do_ontology' = self.do_ontology
    /\ go_associations' = self.go_associations
    /\ do_associations' = self.do_associations
    /\ fs' = self.fs

\* the cache paths WBDataFetcher.__init__ builds, and the URLs: the keys of
\* what the remote source serves
gene_data_cache_path == <<"cache", "/", "geneIDs.txt", GZ>>
go_ontology_cache_path == <<"cache", "/", "gene_ontology.obo">>
go_associations_cache_path == <<"cache", "/", "go_annotations.gaf", GZ>>
do_ontology_cache_path == <<"cache", "/", "disease_ontology.obo">>
do_associations_cache_path == <<"cache", "/", "do_annotations.wb">>
do_associations_new_cache_path == <<"cache", "/", "do_annotations.daf.txt">>

\* self._get_cached_file(cache_path=..., file_source_url=...) in a loader
cached_file(self, cache_path, url, fetch_ok) ==
    get_cached_file_result(self.fs, use_cache, cache_path, fetch_ok, remote[url], TRUE)

(***************************************************************************)
(* DataFetcher.remove_blacklisted_annotations                              *)
(***************************************************************************)
\* the mutation of remove_blacklisted_annotations that keeps one annotation
\* for each subject and term
remove_blacklisted_annotations_dedup(association_set, terms_blacklist) ==
    LET kept == SelectSeq(association_set.assocs,
                          LAMBDA a : a.object \notin Range(terms_blacklist))
    IN  create_from_assocs(
            SelectSeq(kept, LAMBDA a :
                \A b \in Range(kept) :
                    b.subject = a.subject /\ b.object = a.object
                        => b.source_line >= a.source_line))

remove_blacklisted_annotations(association_set, terms_blacklist) ==
    create_from_assocs(SelectSeq(association_set.assocs,
                                 LAMBDA a : a.object \notin Range(terms_blacklist)))

(***************************************************************************)
(* WBDataFetcher.load_gene_data_from_file                                  *)
(*                                                                         *)
(* A line of the gene file is its fields after split(','): nf tells how    *)
(* many there are, and a field beyond them is an IndexError.               *)
(***************************************************************************)
\* the highest index of fields[] the loop reads
GeneStatusCol == 4

Gene(id, name, dead, pseudo) == [id |-> id, name |-> name, dead |-> dead, pseudo |-> pseudo]

\* self.gene_data[gene.id] = gene, the dictionary kept as a sequence
put_gene(genes, gene) ==
    IF \E i \in 1..Len(genes) : genes[i].id = gene.id
    THEN [i \in 1..Len(genes) |-> IF genes[i].id = gene.id THEN gene ELSE genes[i]]
    ELSE Append(genes, gene)

\* the line is too short for the fields the loop reads
gene_row_raises(row) == row.nf <= GeneStatusCol

\* the mutation of gene_of_row that takes the name from column 3 only
gene_of_row_no_fallback(row) ==
    Gene(<<"WB:", row.id>>, row.name, row.status = "Dead", FALSE)

gene_of_row(row) ==
    Gene(<<"WB:", row.id>>, IF row.name # "" THEN row.name ELSE row.other_name,
         row.status = "Dead", FALSE)

\* the loop over the lines, which ends at the first line that raises
RECURSIVE read_gene_rows(_, _)
read_gene_rows(rows, genes) ==
    IF rows = <<>> THEN [genes |-> genes, raised |-> ""]
    ELSE IF gene_row_raises(Head(rows)) THEN [genes |-> genes, raised |-> "IndexError"]
    ELSE read_gene_rows(Tail(rows), put_gene(genes, gene_of_row(Head(rows))))

load_gene_data_from_file_result(self, fetch_ok) ==
    IF self.gene_data.loaded /\ Len(self.gene_data.genes) # 0
    THEN [self |-> self, raised |-> ""]
    ELSE LET emptied == [self EXCEPT !.gene_data = [loaded |-> TRUE, genes |-> <<>>]]
             c == cached_file(emptied, gene_data_cache_path, "gene_data_url", fetch_ok)
         IN  IF c.raised # ""
             THEN [self |-> [emptied EXCEPT !.fs = c.fs], raised |-> c.raised]
             ELSE LET read == read_gene_rows(c.fs[c.file_path].data, <<>>)
                  IN  [self |-> [emptied EXCEPT
                                    !.fs = c.fs,
                                    !.gene_data = [loaded |-> TRUE, genes |-> read.genes]],
                       raised |-> read.raised]

(***************************************************************************)
(* DataFetcher.load_ontology_from_file                                     *)
(*                                                                         *)
(* An ontology is its set of terms, the obsolete ones among them and the   *)
(* ones whose label a replacement has rewritten.  The graph (relations,    *)
(* depths) is outside the model.  terms_replacement_regex is "none", a     *)
(* pattern that matches labels ("match") or one that re.sub rejects        *)
(* ("invalid").                                                            *)
(***************************************************************************)
\* rename_ontology_terms: the labels of the terms the pattern finds change
rename_ontology_terms(ontology, regex) ==
    IF regex = "match"
    THEN [ontology EXCEPT !.renamed = ontology.terms \ ontology.obsolete]
    ELSE ontology

ontology_path(ontology_type) ==
    IF ontology_type = "GO" THEN go_ontology_cache_path ELSE do_ontology_cache_path
ontology_url(ontology_type) ==
    IF ontology_type = "GO" THEN "go_ontology_url" ELSE "do_ontology_url"

\* the mutation of set_ontology_field that assigns the other type's field
set_ontology_field_swapped(self, ontology_type, ontology) ==
    IF ontology_type = "GO" THEN [self EXCEPT !.do_ontology = ontology]
    ELSE [self EXCEPT !.go_ontology = ontology]

\* self.go_ontology = ... or self.do_ontology = ..., by ontology_type
set_ontology_field(self, ontology_type, ontology) ==
    IF ontology_type = "GO" THEN [self EXCEPT !.go_ontology = ontology]
    ELSE [self EXCEPT !.do_ontology = ontology]

load_ontology_from_file_result(self, ontology_type, regex, fetch_ok) ==
    LET c == cached_file(self, ontology_path(ontology_type), ontology_url(ontology_type),
                         fetch_ok)
        fetched == [self EXCEPT !.fs = c.fs]
    IN  IF c.raised # "" THEN [self |-> fetched, raised |-> c.raised]
        ELSE LET obo == c.fs[c.file_path].data
                 new_ontology == [loaded |-> TRUE, terms |-> obo.terms,
                                  obsolete |-> obo.obsolete, renamed |-> {}]
             IN  IF ~obo.wellformed THEN [self |-> fetched, raised |-> "ParseError"]
                 ELSE IF regex = "invalid"
                 THEN [self |-> set_ontology_field(fetched, ontology_type, new_ontology),
                       raised |-> "re.error"]
                 ELSE [self |-> set_ontology_field(fetched, ontology_type,
                                    rename_ontology_terms(new_ontology, regex)),
                       raised |-> ""]

(***************************************************************************)
(* DataFetcher.load_associations_from_file, which WBDataFetcher uses for   *)
(* GO.                                                                     *)
(***************************************************************************)
load_go_associations_result(self, exclusion_list, fetch_ok) ==
    LET c == cached_file(self, go_associations_cache_path, "go_associations_url", fetch_ok)
        fetched == [self EXCEPT !.fs = c.fs]
    IN  IF c.raised # "" THEN [self |-> fetched, raised |-> c.raised]
        ELSE [self |-> [fetched EXCEPT !.go_associations =
                           remove_blacklisted_annotations(
                               create_from_assocs(parse_gaf(c.fs[c.file_path].data)),
                               exclusion_list)],
              raised |-> ""]

(***************************************************************************)
(* WBDataFetcher.load_associations_from_file for DO.                       *)
(*                                                                         *)
(* A line of the rich-text file is a comment (it starts with "!") or a     *)
(* row: its fields after split("\t"), of which nf tells the number and an  *)
(* index at or beyond nf is an IndexError.                                 *)
(***************************************************************************)
\* the indices of linearr[] that a row is read at
TermCol == 10
EvidenceCol == 16
ProvidedByCol == 20

\* self.do_ontology.node(term_id), true of the terms of the ontology
node(ontology, term_id) == term_id \in ontology.terms

\* the mutation of daf_row_outcome that lets IEA rows of the rich-text file in
daf_row_outcome_with_iea(row, ontology) ==
    IF ~ontology.loaded THEN "AttributeError"
    ELSE IF row.nf <= TermCol THEN "IndexError"
    ELSE IF ~node(ontology, row.object) THEN "skip"
    ELSE IF row.nf <= ProvidedByCol THEN "IndexError"
    ELSE "append"

\* what lines 346-373 do with one row: the condition reads linearr[10], then
\* linearr[16] if the term is in the ontology; the dictionary reads up to
\* linearr[20] if the condition holds
daf_row_outcome(row, ontology) ==
    IF ~ontology.loaded THEN "AttributeError"
    ELSE IF row.nf <= TermCol THEN "IndexError"
    ELSE IF ~node(ontology, row.object) THEN "skip"
    ELSE IF row.nf <= EvidenceCol THEN "IndexError"
    ELSE IF row.evidence = "IEA" THEN "skip"
    ELSE IF row.nf <= ProvidedByCol THEN "IndexError"
    ELSE "append"

\* the loop over the lines from line i on; header is the flag of that name
RECURSIVE read_daf_lines(_, _, _, _, _)
read_daf_lines(lines, i, header, ontology, associations) ==
    IF i > Len(lines) THEN [associations |-> associations, raised |-> ""]
    ELSE IF lines[i].comment
    THEN read_daf_lines(lines, i + 1, header, ontology, associations)
    ELSE IF header
    THEN read_daf_lines(lines, i + 1, FALSE, ontology, associations)
    ELSE LET outcome == daf_row_outcome(lines[i], ontology)
         IN  IF outcome = "skip"
             THEN read_daf_lines(lines, i + 1, header, ontology, associations)
             ELSE IF outcome = "append"
             THEN read_daf_lines(lines, i + 1, header, ontology,
                      Append(associations,
                             Annotation(lines[i].subject, lines[i].object,
                                        lines[i].evidence, lines[i].qualifiers, "daf", i)))
             ELSE [associations |-> associations, raised |-> outcome]

\* associations is the local list of that name as the call leaves it
load_do_associations_result(self, exclusion_list, fetch_ok, new_fetch_ok) ==
    LET c == cached_file(self, do_associations_cache_path, "do_associations_url", fetch_ok)
    IN  IF c.raised # ""
        THEN [self |-> [self EXCEPT !.fs = c.fs], raised |-> c.raised, associations |-> <<>>]
        ELSE
        LET tabular == create_from_assocs(parse_gaf(c.fs[c.file_path].data))
            parsed == [self EXCEPT !.fs = c.fs, !.do_associations = tabular]
            iea == SelectSeq(tabular.assocs, LAMBDA a : a.evidence = "IEA")
            d == cached_file(parsed, do_associations_new_cache_path,
                             "do_associations_new_url", new_fetch_ok)
        IN  IF d.raised # ""
            THEN [self |-> [parsed EXCEPT !.fs = d.fs], raised |-> d.raised,
                  associations |-> iea]
            ELSE
            LET read == read_daf_lines(d.fs[d.file_path].data, 1, TRUE,
                                       self.do_ontology, iea)
            IN  IF read.raised # ""
                THEN [self |-> [parsed EXCEPT !.fs = d.fs], raised |-> read.raised,
                      associations |-> read.associations]
                ELSE [self |-> [parsed EXCEPT
                                   !.fs = d.fs,
                                   !.do_associations =
                                       remove_blacklisted_annotations(
                                           create_from_assocs(read.associations),
                                           exclusion_list)],
                      raised |-> "",
                      associations |-> read.associations]

(***************************************************************************)
(* The loaders as actions.                                                 *)
(***************************************************************************)
load_gene_data_from_file(fetch_ok) ==
    LET r == load_gene_data_from_file_result(Self, fetch_ok)
    IN  /\ Becomes(r.self)
        /\ call' = [op |-> "load_gene_data_from_file", raised |-> r.raised]
        /\ UNCHANGED <<use_cache, remote>>

load_ontology_from_file(ontology_type, regex, fetch_ok) ==
    LET r == load_ontology_from_file_result(Self, ontology_type, regex, fetch_ok)
    IN  /\ Becomes(r.self)
        /\ call' = [op |-> "load_ontology_from_file", type |-> ontology_type,
                    raised |-> r.raised]
        /\ UNCHANGED <<use_cache, remote>>

load_associations_from_file(associations_type, exclusion_list, fetch_ok, new_fetch_ok) ==
    LET r == IF associations_type = "GO"
             THEN load_go_associations_result(Self, exclusion_list, fetch_ok)
             ELSE load_do_associations_result(Self, exclusion_list, fetch_ok, new_fetch_ok)
    IN  /\ Becomes(r.self)
        /\ call' = [op |-> "load_associations_from_file", type |-> associations_type,
                    exclusion_list |-> exclusion_list,
                    associations |-> IF associations_type = "GO" THEN <<>>
                                     ELSE r.associations,
                    raised |-> r.raised]
        /\ UNCHANGED <<use_cache, remote>>

(***************************************************************************)
(* The specification of the DO loader: the disease ontology is loaded, the *)
(* remote source serves any tabular file and any rich-text file, and       *)
(* load_associations_from_file is called once for DO.                      *)
(***************************************************************************)
\* the bounds: the records of the tabular file, the lines of the rich-text
\* file after its header
MaxTabular == 2
MaxRichText == 2

\* the disease ontology: T1 is a term of it, T2 is not
MergeDoOntology == [loaded |-> TRUE, terms |-> {"T1"}, obsolete |-> {}, renamed |-> {}]

TabularRows ==
    [subject : Genes, object : {"T1"}, evidence : EvidenceCodes, qualifiers : {{}}]

\* a line of nf fields: the fields a shorter line lacks are empty
RichTextRow(nf, term, ev) ==
    [comment |-> FALSE, nf |-> nf, subject |-> "G1",
     object |-> IF nf > TermCol THEN term ELSE "",
     evidence |-> IF nf > EvidenceCol THEN ev ELSE "",
     qualifiers |-> {}]

CommentLine ==
    [comment |-> TRUE, nf |-> 1, subject |-> "", object |-> "", evidence |-> "",
     qualifiers |-> {}]

\* the header line, with the names of the 21 columns
HeaderLine ==
    [comment |-> FALSE, nf |-> ProvidedByCol + 1, subject |-> "DB Object ID",
     object |-> "DOID", evidence |-> "Evidence Code", qualifiers |-> {}]

\* comments and rows of 10, 16, 20 and 21 fields
RichTextLines ==
    {CommentLine}
    \cup {RichTextRow(nf, t, e) :
            nf \in {TermCol, EvidenceCol, ProvidedByCol, ProvidedByCol + 1},
            t \in Terms, e \in EvidenceCodes}

\* a comment, the header, and the lines after it
RichTextFiles ==
    {<<CommentLine, HeaderLine>> \o body : body \in SeqsUpTo(RichTextLines, MaxRichText)}

InitMerge ==
    /\ go_ontology = None
    /\ do_ontology = MergeDoOntology
    /\ go_associations = None
    /\ do_associations = None
    /\ gene_data = None
    /\ use_cache = FALSE
    /\ fs = <<>>
    /\ remote \in [do_associations_url : SeqsUpTo(TabularRows, MaxTabular),
                   do_associations_new_url : RichTextFiles]
    /\ call = [op |-> "init"]

NextMerge ==
    /\ call.op = "init"
    /\ \E exclusion_list \in {<<>>, <<"T1">>}, fetch_ok \in BOOLEAN, new_fetch_ok \in BOOLEAN :
        load_associations_from_file("DO", exclusion_list, fetch_ok, new_fetch_ok)

SpecMerge == InitMerge /\ [][NextMerge]_vars

(***************************************************************************)
(* WBDataFetcher.load_all_data_from_file: the five loads in turn, ended by *)
(* the first that raises.  fetch_ok tells, for each URL, whether fetching  *)
(* it succeeds.                                                            *)
(***************************************************************************)
load_all_data_from_file_result(self, go_regex, go_exclusion_list, do_regex, do_exclusion_list, fetch_ok) ==
    LET genes == load_gene_data_from_file_result(self, fetch_ok["gene_data_url"])
        go_o == load_ontology_from_file_result(genes.self, "GO", go_regex,
                                               fetch_ok["go_ontology_url"])
        go_a == load_go_associations_result(go_o.self, go_exclusion_list,
                                            fetch_ok["go_associations_url"])
        do_o == load_ontology_from_file_result(go_a.self, "DO", do_regex,
                                               fetch_ok["do_ontology_url"])
        do_a == load_do_associations_result(do_o.self, do_exclusion_list,
                                            fetch_ok["do_associations_url"],
                                            fetch_ok["do_associations_new_url"])
    IN  IF genes.raised # ""
        THEN [self |-> genes.self, raised |-> genes.raised, phase |-> "gene_data"]
        ELSE IF go_o.raised # ""
        THEN [self |-> go_o.self, raised |-> go_o.raised, phase |-> "go_ontology"]
        ELSE IF go_a.raised # ""
        THEN [self |-> go_a.self, raised |-> go_a.raised, phase |-> "go_associations"]
        ELSE IF do_o.raised # ""
        THEN [self |-> do_o.self, raised |-> do_o.raised, phase |-> "do_ontology"]
        ELSE IF do_a.raised # ""
        THEN [self |-> do_a.self, raised |-> do_a.raised, phase |-> "do_associations"]
        ELSE [self |-> do_a.self, raised |-> "", phase |-> ""]

load_all_data_from_file(go_regex, go_exclusion_list, do_regex, do_exclusion_list, fetch_ok) ==
    LET r == load_all_data_from_file_result(Self, go_regex, go_exclusion_list, do_regex,
                                            do_exclusion_list, fetch_ok)
    IN  /\ Becomes(r.self)
        /\ call' = [op |-> "load_all_data_from_file", phase |-> r.phase,
                    raised |-> r.raised]
        /\ UNCHANGED <<use_cache, remote>>

(***************************************************************************)
(* The specification of the loaders: a new WBDataFetcher, a remote source  *)
(* that serves good files or one defective file, and the loaders called in *)
(* any order, any number of times, each fetch failing or not, with empty     *)
(* exclusion lists.                                                        *)
(***************************************************************************)
URLs == {"gene_data_url", "go_ontology_url", "go_associations_url", "do_ontology_url",
         "do_associations_url", "do_associations_new_url"}

GeneRow(nf, id, name, other_name, status) ==
    [nf |-> nf, id |-> id, name |-> name, other_name |-> other_name, status |-> status]

\* gene files: a good one, and one whose second line is too short
GoodGeneFile ==
    <<GeneRow(GeneStatusCol + 1, "WBGene00000001", "aap-1", "", "Live"),
      GeneRow(GeneStatusCol + 1, "WBGene00000002", "", "Y110A7A.10", "Dead")>>
ShortGeneFile ==
    <<GeneRow(GeneStatusCol + 1, "WBGene00000001", "aap-1", "", "Live"),
      GeneRow(GeneStatusCol, "WBGene00000002", "aat-1", "", ""),
      GeneRow(GeneStatusCol + 1, "WBGene00000003", "aat-2", "", "Live")>>

GoOboFile == [wellformed |-> TRUE, terms |-> {"T1", "T2"}, obsolete |-> {"T2"}]

\* disease ontology files: a good one, without the term T2, and a broken one
GoodDoOboFile == [wellformed |-> TRUE, terms |-> {"T1"}, obsolete |-> {}]
BrokenDoOboFile == [wellformed |-> FALSE, terms |-> {}, obsolete |-> {}]

GoGafFile ==
    <<[subject |-> "G1", object |-> "T1", evidence |-> "EXP", qualifiers |-> {}],
      [subject |-> "G2", object |-> "T2", evidence |-> "IEA", qualifiers |-> {}],
      [subject |-> "G1", object |-> "T1", evidence |-> "IEA", qualifiers |-> {"NOT"}]>>

DoGafFile ==
    <<[subject |-> "G1", object |-> "T1", evidence |-> "IEA", qualifiers |-> {}],
      [subject |-> "G2", object |-> "T2", evidence |-> "IEA", qualifiers |-> {}],
      [subject |-> "G1", object |-> "T1", evidence |-> "EXP", qualifiers |-> {}]>>

\* rich-text files: a good one, and one whose last row is too short
GoodDoDafFile ==
    <<CommentLine, HeaderLine, RichTextRow(ProvidedByCol + 1, "T1", "EXP")>>
ShortDoDafFile ==
    <<CommentLine, HeaderLine, RichTextRow(ProvidedByCol + 1, "T1", "EXP"),
      RichTextRow(EvidenceCol, "T1", "EXP")>>

\* what the remote source serves: every file good, or one of them defective
GoodRemote ==
    [gene_data_url |-> GoodGeneFile, go_ontology_url |-> GoOboFile,
     go_associations_url |-> GoGafFile, do_ontology_url |-> GoodDoOboFile,
     do_associations_url |-> DoGafFile, do_associations_new_url |-> GoodDoDafFile]
Remotes ==
    {GoodRemote,
     [GoodRemote EXCEPT !["gene_data_url"] = ShortGeneFile],
     [GoodRemote EXCEPT !["do_ontology_url"] = BrokenDoOboFile],
     [GoodRemote EXCEPT !["do_associations_new_url"] = ShortDoDafFile]}

Regexes == {"none", "match", "invalid"}

\* the calls of load_all_data_from_file: empty exclusion lists; nothing goes
\* wrong, with or without replacement regexes, or one URL cannot be fetched,
\* or one regex does not compile
LoadAllCalls ==
    {[go_regex |-> r, do_regex |-> r, failing |-> "none"] : r \in {"none", "match"}}
    \cup {[go_regex |-> "none", do_regex |-> "none", failing |-> url] : url \in URLs}
    \cup {[go_regex |-> "invalid", do_regex |-> "none", failing |-> "none"],
          [go_regex |-> "none", do_regex |-> "invalid", failing |-> "none"]}

InitLoad ==
    /\ go_ontology = None
    /\ do_ontology = None
    /\ go_associations = None
    /\ do_associations = None
    /\ gene_data = None
    /\ use_cache \in BOOLEAN
    /\ fs = <<>>
    /\ remote \in Remotes
    /\ call = [op |-> "init"]

NextLoad ==
    \/ \E fetch_ok \in BOOLEAN : load_gene_data_from_file(fetch_ok)
    \/ \E ontology_type \in DataTypes, regex \in Regexes, fetch_ok \in BOOLEAN :
        load_ontology_from_file(ontology_type, regex, fetch_ok)
    \/ \E associations_type \in DataTypes, fetch_ok \in BOOLEAN, new_fetch_ok \in BOOLEAN :
        load_associations_from_file(associations_type, <<>>, fetch_ok, new_fetch_ok)
    \/ \E c \in LoadAllCalls :
        load_all_data_from_file(c.go_regex, <<>>, c.do_regex, <<>>,
                                [url \in URLs |-> url # c.failing])

SpecLoad == InitLoad /\ [][NextLoad]_vars

(***************************************************************************)
(* DataFetcher.set_associations, and the specification of the blacklist:   *)
(* a new fetcher, and one call that stores an association set, either      *)
(* set_associations with the set built from any annotation records or      *)
(* load_associations_from_file for GO with a file of these records, with   *)
(* any exclusion list.                                                     *)
(***************************************************************************)
set_associations(associations_type, associations, exclusion_list) ==
    /\ IF associations_type = "GO"
       THEN /\ go_associations' = remove_blacklisted_annotations(associations, exclusion_list)
            /\ UNCHANGED do_associations
       ELSE /\ do_associations' = remove_blacklisted_annotations(associations, exclusion_list)
            /\ UNCHANGED go_associations
    /\ call' = [op |-> "set_associations", type |-> associations_type,
                exclusion_list |-> exclusion_list, associations |-> associations.assocs,
                raised |-> ""]
    /\ UNCHANGED <<go_ontology, do_ontology, gene_data, use_cache, fs, remote>>

\* the annotation records: any gene, term and evidence code
SetRows == [subject : Genes, object : Terms, evidence : EvidenceCodes, qualifiers : {{}}]

SetExclusionLists == {<<>>, <<"T1">>, <<"T2">>, <<"T1", "T2">>}

\* the records the stored set is built from
SetInput == parse_gaf(remote.go_associations_url)

InitSet ==
    /\ go_ontology = None
    /\ do_ontology = None
    /\ go_associations = None
    /\ do_associations = None
    /\ gene_data = None
    /\ use_cache = FALSE
    /\ fs = <<>>
    /\ remote \in [go_associations_url : SeqsUpTo(SetRows, MaxAnnots)]
    /\ call = [op |-> "init"]

NextSet ==
    \/ /\ call.op = "init"
       /\ \E associations_type \in DataTypes, exclusion_list \in SetExclusionLists :
            set_associations(associations_type, create_from_assocs(SetInput),
                             exclusion_list)
    \/ /\ call.op = "init"
       /\ \E exclusion_list \in SetExclusionLists, fetch_ok \in BOOLEAN :
            load_associations_from_file("GO", exclusion_list, fetch_ok, TRUE)

SpecSet == InitSet /\ [][NextSet]_vars

(***************************************************************************)
(* DataFetcher.get_gene_data and DataFetcher.set_gene_data, and the        *)
(* specification of the gene catalog: a new WBDataFetcher, and the gene    *)
(* list loaded, genes set and the catalog iterated, in any order.          *)
(***************************************************************************)
\* the longest list of genes given to set_gene_data
MaxGenes == 2

\* the mutation of gene_filter that never leaves a pseudo gene out
gene_filter_keeps_pseudo(gene_obj, include_dead_genes, include_pseudo_genes) ==
    include_dead_genes \/ ~gene_obj.dead

\* the condition under which get_gene_data yields a gene
gene_filter(gene_obj, include_dead_genes, include_pseudo_genes) ==
    /\ include_dead_genes \/ ~gene_obj.dead
    /\ include_pseudo_genes \/ ~gene_obj.pseudo

\* the genes the generator yields, in the order of the dictionary
get_gene_data_result(self, include_dead_genes, include_pseudo_genes) ==
    IF self.gene_data.loaded /\ Len(self.gene_data.genes) > 0
    THEN SelectSeq(self.gene_data.genes,
                   LAMBDA gene_obj : gene_filter(gene_obj, include_dead_genes,
                                                 include_pseudo_genes))
    ELSE <<>>

get_gene_data(include_dead_genes, include_pseudo_genes) ==
    /\ call' = [op |-> "get_gene_data", include_dead_genes |-> include_dead_genes,
                include_pseudo_genes |-> include_pseudo_genes,
                ret |-> get_gene_data_result(Self, include_dead_genes,
                                             include_pseudo_genes),
                raised |-> ""]
    /\ UNCHANGED <<dataVars, use_cache, fs, remote>>

\* the loop of set_gene_data; while gene_data is None the first assignment
\* raises
RECURSIVE put_genes(_, _)
put_genes(genes, gene_list) ==
    IF gene_list = <<>> THEN genes
    ELSE put_genes(put_gene(genes, Head(gene_list)), Tail(gene_list))

set_gene_data(gene_list) ==
    /\ IF gene_list = <<>>
       THEN /\ UNCHANGED gene_data
            /\ call' = [op |-> "set_gene_data", raised |-> ""]
       ELSE IF ~gene_data.loaded
       THEN /\ UNCHANGED gene_data
            /\ call' = [op |-> "set_gene_data", raised |-> "TypeError"]
       ELSE /\ gene_data' = [gene_data EXCEPT !.genes = put_genes(@, gene_list)]
            /\ call' = [op |-> "set_gene_data", raised |-> ""]
    /\ UNCHANGED <<go_associations, do_associations, go_ontology, do_ontology,
                   use_cache, fs, remote>>

\* the genes given to set_gene_data: the ids of the gene file, dead or not,
\* pseudo or not
SetGenes ==
    {Gene(<<"WB:", id>>, "aap-1", dead, pseudo) :
        id \in {"WBGene00000001", "WBGene00000002"}, dead \in BOOLEAN, pseudo \in BOOLEAN}

InitGenes ==
    /\ go_ontology = None
    /\ do_ontology = None
    /\ go_associations = None
    /\ do_associations = None
    /\ gene_data = None
    /\ use_cache = FALSE
    /\ fs = <<>>
    /\ remote = GoodRemote
    /\ call = [op |-> "init"]

NextGenes ==
    \/ \E fetch_ok \in BOOLEAN : load_gene_data_from_file(fetch_ok)
    \/ \E gene_list \in SeqsUpTo(SetGenes, MaxGenes) : set_gene_data(gene_list)
    \/ \E include_dead_genes \in BOOLEAN, include_pseudo_genes \in BOOLEAN :
        get_gene_data(include_dead_genes, include_pseudo_genes)

SpecGenes == InitGenes /\ [][NextGenes]_vars

(***************************************************************************)
(* The specification of the gene list: a new WBDataFetcher, a remote       *)
(* source that serves any gene list, and load_gene_data_from_file called   *)
(* any number of times, each fetch failing or not.                         *)
(***************************************************************************)
\* the longest gene list, in lines
MaxGeneRows == 2

\* the lines of a gene list: of five fields, or of four, without the status
GeneFileRows ==
    {GeneRow(GeneStatusCol + 1, id, name, other_name, status) :
        id \in {"WBGene00000001", "WBGene00000002"}, name \in {"aap-1", ""},
        other_name \in {"Y110A7A.10", ""}, status \in {"Live", "Dead"}}
    \cup {GeneRow(GeneStatusCol, id, name, other_name, "") :
        id \in {"WBGene00000001", "WBGene00000002"}, name \in {"aap-1", ""},
        other_name \in {"Y110A7A.10", ""}}

InitGeneFile ==
    /\ go_ontology = None
    /\ do_ontology = None
    /\ go_associations = None
    /\ do_associations = None
    /\ gene_data = None
    /\ use_cache \in BOOLEAN
    /\ fs = <<>>
    /\ remote \in {[GoodRemote EXCEPT !["gene_data_url"] = rows] :
                      rows \in SeqsUpTo(GeneFileRows, MaxGeneRows)}
    /\ call = [op |-> "init"]

NextGeneFile == \E fetch_ok \in BOOLEAN : load_gene_data_from_file(fetch_ok)

SpecGeneFile == InitGeneFile /\ [][NextGeneFile]_vars

(***************************************************************************)
(* Properties of get_annotations_for_gene, checked under SpecSel.          *)
(***************************************************************************)
\* a call of get_annotations_for_gene has returned
Returned == call.op = "get_annotations_for_gene"

\* the association set and the obsolete terms the call's annot_type names
CalledAssocs ==
    IF call.annot_type = "GO" THEN go_associations.assocs ELSE do_associations.assocs
CalledObsolete ==
    IF call.annot_type = "GO" THEN go_ontology.obsolete ELSE do_ontology.obsolete

\* the positions, in the association set, of the called gene's annotations
GenePositions == {i \in 1..Len(CalledAssocs) : CalledAssocs[i].subject = call.gene_id}

\* the annotation passes the obsolescence, negation and priority-list filters
Qualifies(a) ==
    /\ call.include_obsolete \/ a.object \notin CalledObsolete
    /\ call.include_negative_results \/ "NOT" \notin a.qualifiers
    /\ \E i \in 1..Len(call.priority_list) : call.priority_list[i] = a.evidence

QualifyingPositions == {i \in GenePositions : Qualifies(CalledAssocs[i])}

\* the qualifying annotations of the called gene for one term
QualifyingFor(term) == {i \in QualifyingPositions : CalledAssocs[i].object = term}

\* the first position of a code in the priority list
FirstIndex(code) ==
    CHOOSE i \in 1..Len(call.priority_list) :
        /\ call.priority_list[i] = code
        /\ \A j \in 1..(i - 1) : call.priority_list[j] # code

\* a call with the priority list [IEA, EXP] has returned
IeaExpCall == Returned /\ call.priority_list = <<"IEA", "EXP">>

\* the gene has exactly two annotations on the term, an IEA one at position i
\* and an EXP one at position j, both passing the filters
IeaExpCase(term, i, j) ==
    /\ {k \in GenePositions : CalledAssocs[k].object = term} = {i, j}
    /\ QualifyingFor(term) = {i, j}
    /\ i # j
    /\ CalledAssocs[i].evidence = "IEA"
    /\ CalledAssocs[j].evidence = "EXP"

\* C1 as stated: with priority_list = [IEA, EXP], the annotation returned for
\* a term that has an IEA and an EXP annotation is the EXP one (later entries
\* of the list win), whichever comes first in the input.
C1_LaterEntriesWin ==
    IeaExpCall => \A term \in Terms : \A i, j \in 1..Len(CalledAssocs) :
        IeaExpCase(term, i, j) =>
            /\ \E r \in Range(call.ret) : r.object = term
            /\ \A r \in Range(call.ret) : r.object = term => r = CalledAssocs[j]

\* C1 as amended: with priority_list = [IEA, EXP], the annotation returned for
\* a term that has an IEA and an EXP annotation is the IEA one (the entry at
\* position 0 of the list wins), whichever comes first in the input.
C1_EarlierEntriesWin ==
    IeaExpCall => \A term \in Terms : \A i, j \in 1..Len(CalledAssocs) :
        IeaExpCase(term, i, j) =>
            /\ \E r \in Range(call.ret) : r.object = term
            /\ \A r \in Range(call.ret) : r.object = term => r = CalledAssocs[i]

\* the EXP annotation comes first in the input and the IEA one is returned
C1_Witness ==
    IeaExpCall /\ \E term \in Terms : \E i, j \in 1..Len(CalledAssocs) :
        /\ IeaExpCase(term, i, j)
        /\ j < i
        /\ \E r \in Range(call.ret) : r = CalledAssocs[i]

\* C2: the returned list holds exactly one annotation for each term that has
\* a qualifying annotation of the gene, and no two returned annotations share
\* a term.
C2_OnePerQualifyingTerm ==
    Returned =>
        /\ {r.object : r \in Range(call.ret)} =
               {CalledAssocs[i].object : i \in QualifyingPositions}
        /\ \A m, n \in 1..Len(call.ret) :
               call.ret[m].object = call.ret[n].object => m = n

\* two terms qualify, one of them with two qualifying annotations
C2_Witness ==
    /\ Returned
    /\ Len(call.ret) = 2
    /\ Cardinality(QualifyingPositions) = 3

\* C3: of the qualifying annotations of the gene for one term whose evidence
\* codes have the same rank (the same code), none but the earliest in the
\* gene's annotation sequence is returned.
C3_EarliestOfEqualRankWins ==
    Returned =>
        \A i, j \in QualifyingPositions :
            /\ i < j
            /\ CalledAssocs[i].object = CalledAssocs[j].object
            /\ priority_map(call.priority_list)[CalledAssocs[i].evidence] =
                   priority_map(call.priority_list)[CalledAssocs[j].evidence]
            => \A r \in Range(call.ret) : r # CalledAssocs[j]

\* three qualifying annotations of one term and one code; the first is returned
C3_Witness ==
    /\ Returned
    /\ \E i, j, k \in QualifyingPositions :
        /\ i < j /\ j < k
        /\ CalledAssocs[i].object = CalledAssocs[j].object
        /\ CalledAssocs[j].object = CalledAssocs[k].object
        /\ CalledAssocs[i].evidence = CalledAssocs[j].evidence
        /\ CalledAssocs[j].evidence = CalledAssocs[k].evidence
        /\ call.ret = <<CalledAssocs[i]>>

\* C4: for every term in the result, the returned annotation's evidence code
\* is the one that occurs earliest in priority_list among the codes of the
\* gene's qualifying annotations for that term.
C4_FirstListedCodeWins ==
    Returned =>
        \A r \in Range(call.ret) : \A i \in QualifyingFor(r.object) :
            FirstIndex(r.evidence) <= FirstIndex(CalledAssocs[i].evidence)

\* C5: every returned annotation is one of the gene's annotations in the
\* selected association set, with its evidence code in priority_list, its
\* term not obsolete unless include_obsolete, and without the qualifier NOT
\* unless include_negative_results.
C5_ReturnedPassFilters ==
    Returned =>
        \A r \in Range(call.ret) :
            /\ \E i \in GenePositions : CalledAssocs[i] = r
            /\ \E k \in 1..Len(call.priority_list) : call.priority_list[k] = r.evidence
            /\ call.include_obsolete \/ r.object \notin CalledObsolete
            /\ call.include_negative_results \/ "NOT" \notin r.qualifiers

\* an annotation is returned while the gene has one that each filter drops:
\* a negated one, one of an obsolete term, one with a code outside the list
C5_Witness ==
    /\ Returned
    /\ call.ret # <<>>
    /\ ~call.include_obsolete
    /\ ~call.include_negative_results
    /\ \E i, j, k \in GenePositions :
        /\ "NOT" \in CalledAssocs[i].qualifiers
        /\ CalledAssocs[j].object \in CalledObsolete
        /\ \A n \in 1..Len(call.priority_list) :
               call.priority_list[n] # CalledAssocs[k].evidence

(***************************************************************************)
(* Properties of _get_cached_file, checked under SpecCache.                *)
(***************************************************************************)
\* a call of _get_cached_file has ended, by a return or by an exception
CacheCalled == call.op = "_get_cached_file" /\ call.returned

\* a fetch is made exactly when there was no file or use_cache is false
FetchExactlyWhenNeeded ==
    CacheCalled => (call.fetch <=> (~call.existed \/ ~use_cache))

\* a step of _get_cached_file (the remote file changes in no other step)
CacheCallStep == remote' = remote

\* a call that follows a call on a cached file, with use_cache set, makes no
\* fetch, leaves the cached file alone and returns the path the call before
\* it returned
CachedCallRepeats ==
    /\ CacheCallStep /\ use_cache /\ CacheCalled /\ call.existed
    /\ call.raised = "" /\ call'.raised = ""
    => /\ ~call.fetch
       /\ ~call'.fetch
       /\ fs'[call.cache_path] = fs[call.cache_path]
       /\ call'.file_path = call.file_path

\* with use_cache false a call on an existing file fetches, and the file
\* holds what the remote source serves unless the fetch fails
UncachedCallOverwrites ==
    CacheCallStep /\ ~use_cache /\ isfile(fs, call.cache_path)
    => /\ call'.fetch
       /\ call'.raised # "FetchError" => fs'[call.cache_path].data = remote

\* C8: _get_cached_file fetches exactly when no file exists at cache_path or
\* use_cache is false; two consecutive calls with use_cache true on a cached
\* file make no fetch and return the same path; with use_cache false every
\* call on an existing file fetches and overwrites it.
C8_FetchPolicy ==
    /\ []FetchExactlyWhenNeeded
    /\ [][CachedCallRepeats]_vars
    /\ [][UncachedCallOverwrites]_vars

\* a call on a cached compressed file, with use_cache set, has returned
\* without a fetch
C8_Witness ==
    /\ CacheCalled
    /\ use_cache
    /\ call.existed
    /\ ~call.fetch
    /\ call.raised = ""
    /\ endswith_gz(call.cache_path)
    /\ fs[call.cache_path].data < remote

\* C9: for a cache_path that ends in ".gz", also one that contains ".gz"
\* elsewhere, the decompressed content is written to, and the call returns,
\* cache_path without its trailing ".gz" only, and the compressed file stays
\* at cache_path; for a cache_path without the suffix the call returns
\* cache_path.
C9_OnlyTrailingSuffixRemoved ==
    CacheCalled /\ call.raised = "" =>
        IF call.cache_path[Len(call.cache_path)] = GZ
        THEN /\ call.file_path = SubSeq(call.cache_path, 1, Len(call.cache_path) - 1)
             /\ call.file_path \in DOMAIN fs
             /\ ~fs[call.file_path].gzip
             /\ call.cache_path \in DOMAIN fs
             /\ fs[call.cache_path].gzip
        ELSE call.file_path = call.cache_path

(***************************************************************************)
(* Properties of the DO loader, checked under SpecMerge.                   *)
(***************************************************************************)
\* a call of load_associations_from_file for DO has ended
DoLoadEnded == call.op = "load_associations_from_file" /\ call.type = "DO"

\* the records of the tabular file and the lines of the rich-text file
TabularFile == remote.do_associations_url
RichTextFile == remote.do_associations_new_url

\* line i of the rich-text file is a row: no comment, and after the header,
\* which is the first line that is no comment
IsRichTextRow(i) ==
    /\ ~RichTextFile[i].comment
    /\ \E h \in 1..(i - 1) : ~RichTextFile[h].comment

RichTextRowNumbers == {i \in 1..Len(RichTextFile) : IsRichTextRow(i)}

\* the lines the merged stream is to hold, as <<format, line number>>
AllowedTabular == {<<"gaf", i>> : i \in {k \in 1..Len(TabularFile) :
                                            TabularFile[k].evidence = "IEA"}}
AllowedRichText == {<<"daf", i>> : i \in {k \in RichTextRowNumbers :
                                             /\ RichTextFile[k].evidence # "IEA"
                                             /\ RichTextFile[k].object \in do_ontology.terms}}

\* the line an annotation of the stream was read from
SourceLine(a) ==
    IF a.file = "gaf" THEN TabularFile[a.source_line] ELSE RichTextFile[a.source_line]

\* C6: the record stream the DO association set is built from is exactly the
\* tabular records with evidence IEA followed by the rich-text rows whose
\* evidence is not IEA and whose term is in the disease ontology: nothing
\* else is in it, and none of these is missing or doubled.
C6_MergedStreamIsThePartition ==
    DoLoadEnded /\ call.raised = "" =>
        /\ {<<a.file, a.source_line>> : a \in Range(call.associations)} =
               AllowedTabular \cup AllowedRichText
        /\ Len(call.associations) = Cardinality(AllowedTabular \cup AllowedRichText)
        /\ \A a \in Range(call.associations) :
               /\ a.subject = SourceLine(a).subject
               /\ a.object = SourceLine(a).object
               /\ a.evidence = SourceLine(a).evidence
        /\ \A m, n \in 1..Len(call.associations) :
               call.associations[m].file = "gaf" /\ call.associations[n].file = "daf"
                   => m < n

\* the stream holds a tabular record and a rich-text row, while the tabular
\* file has a record that is not IEA and the rich-text file an IEA row of a
\* term of the ontology
C6_Witness ==
    /\ DoLoadEnded
    /\ call.raised = ""
    /\ \E a, b \in Range(call.associations) : a.file = "gaf" /\ b.file = "daf"
    /\ \E k \in 1..Len(TabularFile) : TabularFile[k].evidence # "IEA"
    /\ \E k \in RichTextRowNumbers :
        /\ RichTextFile[k].evidence = "IEA"
        /\ RichTextFile[k].object \in do_ontology.terms

\* C7: the load fails whenever a row of the rich-text file (no comment, not
\* the header) has fewer than 21 fields, whatever its term and evidence.
C7_ShortRowIsFatal ==
    /\ DoLoadEnded
    /\ \E k \in RichTextRowNumbers : RichTextFile[k].nf < ProvidedByCol + 1
    => call.raised # ""

(***************************************************************************)
(* Properties of the loaders called in sequence, checked under SpecLoad.   *)
(***************************************************************************)
\* the step is a loader call that raises
FailedCall(op) == call'.op = op /\ call'.raised # ""

\* the phases of load_all_data_from_file, in the order it runs them
Phases == <<"gene_data", "go_ontology", "go_associations", "do_ontology",
            "do_associations">>
PhaseIndex(phase) == CHOOSE i \in 1..Len(Phases) : Phases[i] = phase

\* the field a phase loads, in this state and in the next one
PhaseField(phase) ==
    CASE phase = "gene_data" -> gene_data
      [] phase = "go_ontology" -> go_ontology
      [] phase = "go_associations" -> go_associations
      [] phase = "do_ontology" -> do_ontology
      [] phase = "do_associations" -> do_associations
PhaseFieldNext(phase) ==
    CASE phase = "gene_data" -> gene_data'
      [] phase = "go_ontology" -> go_ontology'
      [] phase = "go_associations" -> go_associations'
      [] phase = "do_ontology" -> do_ontology'
      [] phase = "do_associations" -> do_associations'

FailedGeneLoadKeeps ==
    FailedCall("load_gene_data_from_file") =>
        UNCHANGED <<go_ontology, do_ontology, go_associations, do_associations>>

FailedOntologyLoadKeeps ==
    FailedCall("load_ontology_from_file") =>
        /\ UNCHANGED <<gene_data, go_associations, do_associations>>
        /\ call'.type = "GO" => UNCHANGED do_ontology
        /\ call'.type = "DO" => UNCHANGED go_ontology

FailedAssociationLoadKeeps ==
    FailedCall("load_associations_from_file") =>
        /\ UNCHANGED <<gene_data, go_ontology, do_ontology>>
        /\ call'.type = "GO" => UNCHANGED do_associations
        /\ call'.type = "DO" => UNCHANGED go_associations

\* in load_all_data_from_file the phases before the failed one have loaded
\* their fields, and the phases after it have not touched theirs
FailedLoadAllKeeps ==
    FailedCall("load_all_data_from_file") =>
        \A i \in 1..Len(Phases) :
            /\ i < PhaseIndex(call'.phase) => PhaseFieldNext(Phases[i]).loaded
            /\ i > PhaseIndex(call'.phase) =>
                   PhaseFieldNext(Phases[i]) = PhaseField(Phases[i])

\* C10: a loader call that raises leaves what the other phases loaded as it
\* was: a failed gene load leaves the ontologies and the association sets, a
\* failed ontology load leaves the gene catalog, the association sets and the
\* other data type's ontology, a failed association load leaves the gene
\* catalog, both ontologies and the other data type's association set, and a
\* load_all_data_from_file that fails in one phase leaves the fields of the
\* earlier phases loaded and those of the later phases untouched.
C10_FailedPhaseKeepsOtherPhases ==
    [][/\ FailedGeneLoadKeeps
       /\ FailedOntologyLoadKeeps
       /\ FailedAssociationLoadKeeps
       /\ FailedLoadAllKeeps]_vars

\* a DO association load has failed with the gene catalog, both ontologies
\* and the GO association set loaded
C10_Witness ==
    /\ call.op = "load_associations_from_file"
    /\ call.type = "DO"
    /\ call.raised # ""
    /\ gene_data.loaded /\ gene_data.genes # <<>>
    /\ go_ontology.loaded
    /\ do_ontology.loaded
    /\ go_associations.loaded

(***************************************************************************)
(* Properties of the blacklist, checked under SpecSet.                     *)
(***************************************************************************)
\* a call that stores an association set has returned
SetDone ==
    /\ call.op \in {"set_associations", "load_associations_from_file"}
    /\ call.raised = ""

\* the association set the call stored
StoredSet == IF call.type = "GO" THEN go_associations ELSE do_associations

\* the records of a subject that the blacklist lets through, in input order
KeptOf(subject) ==
    SelectSeq(SetInput, LAMBDA a : /\ a.subject = subject
                                   /\ a.object \notin Range(call.exclusion_list))

\* C11: the stored association set holds, for every subject, exactly the
\* input annotations of that subject whose term is not in the blacklist, in
\* their input order: no blacklisted one, every other one, also several for
\* the same subject and term.
C11_BlacklistOnlyFilters ==
    SetDone =>
        /\ \A subject \in Genes :
               SelectSeq(StoredSet.assocs, LAMBDA a : a.subject = subject)
                   = KeptOf(subject)
        /\ \A a \in Range(StoredSet.assocs) : a.subject \in Genes

\* a set was stored with T1 blacklisted, from an input that has an annotation
\* of T1 and, after it, two annotations of one subject for T2
C11_Witness ==
    /\ SetDone
    /\ call.exclusion_list = <<"T1">>
    /\ \E i, j, k \in 1..Len(SetInput) :
        /\ i < j /\ j < k
        /\ SetInput[i].object = "T1"
        /\ SetInput[j].object = "T2" /\ SetInput[k].object = "T2"
        /\ SetInput[j].subject = SetInput[k].subject
        /\ SetInput[j].evidence = SetInput[k].evidence
        /\ SetInput[j] \in Range(StoredSet.assocs)
        /\ SetInput[k] \in Range(StoredSet.assocs)

(***************************************************************************)
(* Further properties of the loaders, checked under SpecLoad.              *)
(***************************************************************************)
\* every annotation of the association set is of a term of the ontology
TermsInOntology(association_set, ontology) ==
    association_set.loaded /\ ontology.loaded =>
        \A a \in Range(association_set.assocs) : a.object \in ontology.terms

\* C12: after any sequence of loader calls, every annotation held in
\* go_associations is of a term of the GO ontology and every annotation held
\* in do_associations is of a term of the DO ontology, tabular records as
\* well as rich-text rows.
C12_AnnotationsReferenceOntologyTerms ==
    /\ TermsInOntology(go_associations, go_ontology)
    /\ TermsInOntology(do_associations, do_ontology)

(***************************************************************************)
(* Properties of the gene catalog, checked under SpecGenes.                *)
(***************************************************************************)
\* the genes of the catalog, none while it is not loaded
CatalogGenes == IF gene_data.loaded THEN gene_data.genes ELSE <<>>

\* a call of get_gene_data has yielded exactly the genes its flags admit
YieldsTheAdmittedGenes ==
    call.op = "get_gene_data" =>
        call.ret = SelectSeq(CatalogGenes, LAMBDA g :
                       /\ call.include_dead_genes \/ ~g.dead
                       /\ call.include_pseudo_genes \/ ~g.pseudo)

\* iterating leaves the catalog as it was
IterationKeepsCatalog == call'.op = "get_gene_data" => gene_data' = gene_data

\* a call with both flags true that follows another call of get_gene_data
\* yields every gene of the catalog
LaterCallYieldsAll ==
    /\ call.op = "get_gene_data"
    /\ call'.op = "get_gene_data"
    /\ call'.include_dead_genes /\ call'.include_pseudo_genes
    => call'.ret = CatalogGenes

\* C13: get_gene_data yields exactly the genes g of the catalog with
\* (include_dead_genes or not g.dead) and (include_pseudo_genes or not
\* g.pseudo); iterating leaves the catalog unchanged, and a later call with
\* both flags true yields every gene.
C13_IterationFiltersAndKeeps ==
    /\ []YieldsTheAdmittedGenes
    /\ [][IterationKeepsCatalog]_vars
    /\ [][LaterCallYieldsAll]_vars

\* a call with include_dead_genes only, on a catalog of a dead gene and a
\* pseudo gene, has yielded the dead one
C13_Witness ==
    /\ call.op = "get_gene_data"
    /\ call.include_dead_genes /\ ~call.include_pseudo_genes
    /\ \E g, h \in Range(CatalogGenes) :
        /\ g.dead /\ ~g.pseudo
        /\ h.pseudo /\ ~h.dead
        /\ call.ret = <<g>>

(***************************************************************************)
(* Properties of load_gene_data_from_file, checked under SpecGeneFile.     *)
(***************************************************************************)
\* the lines of the gene list the remote source serves
GeneFile == remote.gene_data_url

\* the step is a call of load_gene_data_from_file that reads the file (the
\* catalog was None or empty) and returns
GeneFileRead ==
    /\ ~gene_data.loaded \/ gene_data.genes = <<>>
    /\ call'.op = "load_gene_data_from_file"
    /\ call'.raised = ""

\* the last line of the gene list with the id of line i
LastWithId(i) ==
    CHOOSE k \in i..Len(GeneFile) :
        /\ GeneFile[k].id = GeneFile[i].id
        /\ \A m \in (k + 1)..Len(GeneFile) : GeneFile[m].id # GeneFile[i].id

\* the catalog entry the claim prescribes for a line
EntryOf(row) ==
    [id |-> <<"WB:", row.id>>,
     name |-> IF row.name = "" THEN row.other_name ELSE row.name,
     dead |-> (row.status = "Dead"),
     pseudo |-> FALSE]

\* C14: load_gene_data_from_file maps every row of the gene list to one
\* catalog entry keyed by its id, with id = "WB:" followed by column 2,
\* name = column 3, or column 4 when column 3 is empty, dead = (column 5 is
\* "Dead") and pseudo = false; the catalog has no other entry.
C14_RowsBecomeGenes ==
    [][GeneFileRead =>
          /\ gene_data'.loaded
          /\ \A i \in 1..Len(GeneFile) :
                 /\ EntryOf(GeneFile[LastWithId(i)]) \in Range(gene_data'.genes)
                 /\ Cardinality({k \in 1..Len(gene_data'.genes) :
                        gene_data'.genes[k].id = <<"WB:", GeneFile[i].id>>}) = 1
          /\ \A g \in Range(gene_data'.genes) :
                 \E i \in 1..Len(GeneFile) : g = EntryOf(GeneFile[i])]_vars

\* the list with the row "6239,WBGene00000001,aap-1,,Live" and a row of a
\* dead gene without a name in column 3 has been loaded, and the catalog
\* holds Gene{id "WB:WBGene00000001", name "aap-1", dead false, pseudo false}
C14_Witness ==
    /\ call.op = "load_gene_data_from_file"
    /\ call.raised = ""
    /\ GeneFile = <<GeneRow(GeneStatusCol + 1, "WBGene00000001", "aap-1", "", "Live"),
                    GeneRow(GeneStatusCol + 1, "WBGene00000002", "", "Y110A7A.10", "Dead")>>
    /\ gene_data.loaded
    /\ gene_data.genes =
           <<[id |-> <<"WB:", "WBGene00000001">>, name |-> "aap-1", dead |-> FALSE,
              pseudo |-> FALSE],
             [id |-> <<"WB:", "WBGene00000002">>, name |-> "Y110A7A.10", dead |-> TRUE,
              pseudo |-> FALSE]>>

(***************************************************************************)
(* Further properties of get_annotations_for_gene, checked under SpecSel.  *)
(***************************************************************************)
\* the position of the first qualifying annotation of a term
FirstQualifying(term) ==
    CHOOSE i \in QualifyingFor(term) : \A j \in QualifyingFor(term) : i <= j

\* C15: the returned list is ordered by the position, in the gene's input
\* annotations, of the first qualifying annotation of each term, also when a
\* later annotation of higher priority has replaced the one selected for a
\* term.
C15_OrderedByFirstQualifying ==
    Returned =>
        /\ \A m \in 1..Len(call.ret) : QualifyingFor(call.ret[m].object) # {}
        /\ \A m, n \in 1..Len(call.ret) :
               m < n /\ QualifyingFor(call.ret[m].object) # {}
                     /\ QualifyingFor(call.ret[n].object) # {}
                   => FirstQualifying(call.ret[m].object)
                          < FirstQualifying(call.ret[n].object)

\* the annotation returned first has replaced an earlier one of its term and
\* comes, in the input, after the annotation returned second
C15_Witness ==
    /\ Returned
    /\ Len(call.ret) = 2
    /\ \E i, j \in QualifyingPositions :
        /\ call.ret[1] = CalledAssocs[i]
        /\ call.ret[2] = CalledAssocs[j]
        /\ j < i
        /\ FirstQualifying(call.ret[1].object) < j

\* the gene's annotations that pass the obsolescence and negation filters
PassingPositions ==
    {i \in GenePositions :
        /\ call.include_obsolete \/ CalledAssocs[i].object \notin CalledObsolete
        /\ call.include_negative_results \/ "NOT" \notin CalledAssocs[i].qualifiers}

\* C16: after a call with a statistics object, its total-annotation count is
\* the number of the gene's annotations that pass the obsolescence and
\* negation filters, before the priority-list filter and the deduplication,
\* and its post-dedup count is the number of annotations returned.
C16_StatisticsCounts ==
    Returned =>
        /\ call.total_num_go_annotations = Cardinality(PassingPositions)
        /\ call.num_prioritized_go_annotations = Len(call.ret)

\* a call in which the obsolescence or negation filter removed an annotation
\* and the priority-list filter or the deduplication removed another: the
\* two counts differ, and the first is below the number of the gene's
\* annotations
C16_Witness ==
    /\ Returned
    /\ Cardinality(PassingPositions) < Cardinality(GenePositions)
    /\ Len(call.ret) < Cardinality(PassingPositions)
    /\ Len(call.ret) > 0
    /\ call.total_num_go_annotations > call.num_prioritized_go_annotations

(***************************************************************************)
(* Further properties of load_gene_data_from_file, checked under           *)
(* SpecGeneFile.                                                           *)
(***************************************************************************)
\* C17: after any sequence of calls of load_gene_data_from_file, some of
\* which may fail, whenever a call returns without error the catalog holds a
\* Gene for every row of the gene list: a load that failed is restarted in
\* full by the next call, and the catalog never stays at a strict subset of
\* the rows.
C17_ReturnedLoadIsComplete ==
    call.op = "load_gene_data_from_file" /\ call.raised = "" =>
        /\ gene_data.loaded
        /\ \A i \in 1..Len(GeneFile) :
               \E g \in Range(gene_data.genes) : g.id = <<"WB:", GeneFile[i].id>>

(***************************************************************************)
(* Further properties of the DO loader, checked under SpecMerge.           *)
(***************************************************************************)
\* C18: a call of load_associations_from_file for DO that fails (so also one
\* that fails while fetching or parsing the rich-text file) leaves
\* do_associations at the value it had before the call: it never becomes a
\* set built from the tabular file alone.
C18_FailedDoLoadKeepsAssociations ==
    [][FailedCall("load_associations_from_file") /\ call'.type = "DO"
          => do_associations' = do_associations]_vars


=============================================================================
